---- MODULE Spec2Model ----
(***************************************************************************)
(* Model of youtube_dl/extractor/svt.py: the SVT extractors.               *)
(*                                                                         *)
(* Python values are tagged pairs <<tag, payload>>.  A text value carries  *)
(* its text as a sequence of tokens, so that replacing a placeholder,      *)
(* appending a live suffix and splitting a URL at "?" and "." are          *)
(* computed.  A Python dict is a TLA+ function whose DOMAIN is the set of  *)
(* keys present; a nested dict or a list is wrapped in a tagged pair.      *)
(***************************************************************************)
EXTENDS Integers, Sequences, FiniteSets, TLC

VARIABLES
    \* _extract_metadata: position, arguments, returned item
    mpc, info, video_info, meta_out,
    \* _extract_video: position, raw video info, what each manifest decoder
    \* call returns, the formats list, the raised error, the returned item
    vpc, v_info, decoded, formats, v_err, v_out,
    \* SVTSeriesIE._real_extract: position, the series document, the season
    \* selector of the URL, the returned playlist
    spc, series, season_id, playlist,
    \* SVTPlayIE._real_extract: position, the two groups of the URL match,
    \* the page, the answer of the id-based endpoint, the parsed blob, the
    \* item so far, the content id, the raised error, the ids the endpoint
    \* was requested with, the title handed to _adjust_title, the number of
    \* live-title rewrites, the item before the videoPage.video merge
    ppc, url_id, url_svt_id, webpage, api, data, info_dict, svt_id, p_err,
    fetched, chosen, rewrites, before_merge

metaVars == <<mpc, info, video_info, meta_out>>

videoVars == <<vpc, v_info, decoded, formats, v_err, v_out>>

seriesVars == <<spc, series, season_id, playlist>>

playVars == <<ppc, url_id, url_svt_id, webpage, api, data, info_dict, svt_id,
              p_err, fetched, chosen, rewrites, before_merge>>

vars == <<mpc, info, video_info, meta_out,
          vpc, v_info, decoded, formats, v_err, v_out,
          spc, series, season_id, playlist,
          ppc, url_id, url_svt_id, webpage, api, data, info_dict, svt_id,
          p_err, fetched, chosen, rewrites, before_merge>>

(***************************************************************************)
(* Python values                                                           *)
(***************************************************************************)
None == <<"none", <<>>>>

S(toks) == <<"str", toks>>

I(tok) == <<"int", <<tok>>>>

B(b) == <<"bool", <<IF b THEN "true" ELSE "false">>>>

L(seq) == <<"list", seq>>

D(f) == <<"dict", f>>

EmptyDict == [k \in {} |-> None]

\* bool(v) in Python
Truthy(v) ==
    CASE v[1] = "none" -> FALSE
      [] v[1] = "str"  -> v[2] # <<>>
      [] v[1] = "int"  -> v[2] # <<"0">>
      [] v[1] = "bool" -> v[2] = <<"true">>
      [] v[1] = "list" -> v[2] # <<>>
      [] v[1] = "dict" -> DOMAIN v[2] # {}
      [] OTHER -> TRUE

\* d.get(k)
Get(d, k) == IF k \in DOMAIN d THEN d[k] ELSE None

\* d.get(k, default)
GetDefault(d, k, default) == IF k \in DOMAIN d THEN d[k] ELSE default

\* a dict from a set of <<key, value>> pairs, one pair per key
MkDict(pairs) ==
    [k \in {p[1] : p \in pairs} |-> (CHOOSE p \in pairs : p[1] = k)[2]]

\* d with d[k] = v assigned
Assign(d, k, v) == [x \in DOMAIN d \cup {k} |-> IF x = k THEN v ELSE d[x]]

(***************************************************************************)
(* Helpers of youtube_dl.utils                                             *)
(***************************************************************************)
RECURSIVE dict_get(_, _, _, _)
\* first key of the priority list whose value is present (and, unless
\* skip_false_values is off, not a false value); else the default
dict_get(d, keys, default, skip_false_values) ==
    IF keys = <<>> THEN default
    ELSE LET k == Head(keys) IN
         IF \/ k \notin DOMAIN d
            \/ d[k] = None
            \/ (skip_false_values /\ ~Truthy(d[k]))
         THEN dict_get(d, Tail(keys), default, skip_false_values)
         ELSE d[k]

DigitTokens == {"0", "1", "2", "8", "27", "30"}

\* integer coercion; anything that is not a number gives None
int_or_none(v) ==
    CASE v[1] = "int" -> v
      [] v[1] = "str" /\ Len(v[2]) = 1 /\ v[2][1] \in DigitTokens -> I(v[2][1])
      [] OTHER -> None

\* flexible date text to Unix seconds; anything else gives None
unified_timestamp(v) ==
    CASE v = S(<<"2019-04-24">>) -> I("1556064000")
      [] v = S(<<"24", " ", "April", " ", "2019">>) -> I("1556064000")
      [] v = S(<<"2020-01-01">>) -> I("1577836800")
      [] OTHER -> None

\* a value is empty when it is null or the empty text
NonEmpty(v) == v # None /\ v # S(<<>>)

\* merge of a partial item with derived fields: a derived value that is
\* present and non-empty overwrites; every other key keeps its base entry
merge_dicts(base, derived) ==
    LET over == {k \in DOMAIN derived : NonEmpty(derived[k])}
    IN [k \in DOMAIN base \cup over |->
            IF k \in over THEN derived[k] ELSE base[k]]

\* str.replace on a tokenised text
ReplaceTok(toks, from, to) ==
    [i \in 1..Len(toks) |-> IF toks[i] = from THEN to ELSE toks[i]]

(***************************************************************************)
(* SVTBaseIE._extract_metadata                                             *)
(***************************************************************************)
Thumbnail(vi) ==
    LET thumbnail == Get(vi, "thumbnail") IN
    IF Truthy(thumbnail) /\ thumbnail[1] = "str"
    THEN S(ReplaceTok(thumbnail[2], "{format}", "extralarge"))
    ELSE thumbnail

\* try_get(video_info, (x['validFrom'], x['rights']['validFrom']))
ValidFrom(vi) ==
    IF "validFrom" \in DOMAIN vi THEN vi["validFrom"]
    ELSE IF /\ "rights" \in DOMAIN vi
            /\ vi["rights"][1] = "dict"
            /\ "validFrom" \in DOMAIN vi["rights"][2]
         THEN vi["rights"][2]["validFrom"]
         ELSE None

AgeLimitNoNoneCheck(vi) ==
    LET adult == dict_get(vi, <<"inappropriateForChildren", "blockedForChildren">>,
                          None, FALSE)
    IN IF Truthy(adult) THEN I("18") ELSE I("0")

AgeLimit(vi) ==
    LET adult == dict_get(vi, <<"inappropriateForChildren", "blockedForChildren">>,
                          None, FALSE)
    IN IF adult # None
       THEN (IF Truthy(adult) THEN I("18") ELSE I("0"))
       ELSE None

\* the dict literal handed to merge_dicts
Derived(vi) ==
    [title          |-> Get(vi, "title"),
     thumbnail      |-> Thumbnail(vi),
     description    |-> Get(vi, "description"),
     timestamp      |-> unified_timestamp(ValidFrom(vi)),
     duration       |-> int_or_none(dict_get(vi, <<"materialLength", "contentDuration">>,
                                             None, TRUE)),
     age_limit      |-> AgeLimit(vi),
     series         |-> Get(vi, "programTitle"),
     season_number  |-> int_or_none(Get(vi, "season")),
     episode        |-> Get(vi, "episodeTitle"),
     episode_number |-> int_or_none(Get(vi, "episodeNumber"))]

ExtractMetadataBaseWins(i, vi) ==
    LET d == Derived(vi)
        fill == {k \in DOMAIN d :
                    NonEmpty(d[k]) /\ (k \notin DOMAIN i \/ ~NonEmpty(i[k]))}
    IN [k \in DOMAIN i \cup fill |-> IF k \in fill THEN d[k] ELSE i[k]]

ExtractMetadata(i, vi) == merge_dicts(i, Derived(vi))

(***************************************************************************)
(* Specification SpecMeta: _extract_metadata applied to every partial item *)
(* and every raw video-info mapping of the sets below                      *)
(***************************************************************************)
CanonicalKeys ==
    {"title", "thumbnail", "description", "timestamp", "duration", "age_limit",
     "series", "season_number", "episode", "episode_number"}

TextKeys == {"title", "thumbnail", "description", "series", "episode"}

TitleOpts ==
    {{}, {<<"title", S(<<>>)>>}, {<<"title", S(<<"T">>)>>}}

TextOpts ==
    {{},
     {<<"programTitle", S(<<>>)>>, <<"episodeTitle", S(<<>>)>>,
      <<"description", S(<<>>)>>, <<"thumbnail", S(<<>>)>>},
     {<<"programTitle", S(<<"P">>)>>, <<"episodeTitle", S(<<"E">>)>>,
      <<"description", S(<<"Desc">>)>>,
      <<"thumbnail", S(<<"http://img/", "{format}", "/1.jpg">>)>>}}

NumberOpts ==
    {{},
     {<<"season", I("2")>>, <<"episodeNumber", I("8")>>},
     {<<"season", S(<<"2">>)>>, <<"episodeNumber", S(<<"8">>)>>},
     {<<"season", S(<<"x">>)>>, <<"episodeNumber", None>>}}

DurationOpts ==
    {{},
     {<<"materialLength", I("27")>>},
     {<<"contentDuration", I("30")>>},
     {<<"materialLength", I("27")>>, <<"contentDuration", I("30")>>},
     {<<"materialLength", I("0")>>, <<"contentDuration", I("30")>>}}

TimeOpts ==
    {{},
     {<<"validFrom", S(<<"2019-04-24">>)>>},
     {<<"rights", D([validFrom |-> S(<<"2020-01-01">>)])>>},
     {<<"validFrom", S(<<"soon">>)>>,
      <<"rights", D([validFrom |-> S(<<"2020-01-01">>)])>>},
     {<<"rights", D([geoBlockedSweden |-> B(TRUE)])>>}}

FlagOpts(key) == {{}, {<<key, B(FALSE)>>}, {<<key, B(TRUE)>>}}

RawVideoInfos ==
    {MkDict(t \cup x \cup n \cup d \cup v \cup a \cup b) :
        t \in TitleOpts, x \in TextOpts, n \in NumberOpts, d \in DurationOpts,
        v \in TimeOpts, a \in FlagOpts("inappropriateForChildren"),
        b \in FlagOpts("blockedForChildren")}

BaseInfos ==
    {EmptyDict,
     [id |-> S(<<"vid">>), formats |-> L(<<>>), subtitles |-> D(EmptyDict),
      is_live |-> B(FALSE)],
     [title |-> S(<<"BT">>), thumbnail |-> S(<<"BThumb">>),
      description |-> S(<<"BDesc">>), timestamp |-> I("1"), duration |-> I("1"),
      age_limit |-> I("1"), series |-> S(<<"BP">>), season_number |-> I("1"),
      episode |-> S(<<"BE">>), episode_number |-> I("1")],
     [k \in CanonicalKeys |-> None],
     [k \in TextKeys |-> S(<<>>)]}

MetaIdle ==
    /\ mpc = "idle" /\ info = EmptyDict /\ video_info = EmptyDict
    /\ meta_out = EmptyDict

VideoIdle ==
    /\ vpc = "idle" /\ v_info = EmptyDict /\ decoded = <<>> /\ formats = <<>>
    /\ v_err = "none" /\ v_out = EmptyDict

SeriesIdle ==
    /\ spc = "idle" /\ series = EmptyDict /\ season_id = None
    /\ playlist = EmptyDict

PlayIdle ==
    /\ ppc = "idle" /\ url_id = None /\ url_svt_id = None /\ webpage = None
    /\ api = None /\ data = None /\ info_dict = EmptyDict /\ svt_id = None
    /\ p_err = "none" /\ fetched = <<>> /\ chosen = None /\ rewrites = 0
    /\ before_merge = EmptyDict

InitMeta ==
    /\ mpc = "call"
    /\ info \in BaseInfos
    /\ video_info \in RawVideoInfos
    /\ meta_out = EmptyDict
    /\ VideoIdle
    /\ SeriesIdle
    /\ PlayIdle

\* return merge_dicts(info, {...})
MetaCall ==
    /\ mpc = "call"
    /\ meta_out' = ExtractMetadata(info, video_info)
    /\ mpc' = "return"
    /\ UNCHANGED <<info, video_info>>
    /\ UNCHANGED videoVars
    /\ UNCHANGED seriesVars
    /\ UNCHANGED playVars

NextMeta == MetaCall

SpecMeta == InitMeta /\ [][NextMeta]_vars

(***************************************************************************)
(* Claims about _extract_metadata                                          *)
(***************************************************************************)
Flag(vi, key) ==
    IF key \notin DOMAIN vi THEN "absent"
    ELSE IF vi[key] = B(TRUE) THEN "true" ELSE "false"

\* C1 as stated: after normalizing into an item without an age rating, the
\* age limit is 18 when either of inappropriateForChildren and
\* blockedForChildren is true and the other is absent or false, 0 when both
\* are false, and null when both are absent.
C1_AsStated ==
    (mpc = "return" /\ "age_limit" \notin DOMAIN info) =>
        LET a == Flag(video_info, "inappropriateForChildren")
            b == Flag(video_info, "blockedForChildren")
            age == Get(meta_out, "age_limit")
        IN /\ ((a = "true" /\ b # "true") \/ (b = "true" /\ a # "true"))
                  => age = I("18")
           /\ (a = "false" /\ b = "false") => age = I("0")
           /\ (a = "absent" /\ b = "absent") => age = None

\* C1 amended: the first of inappropriateForChildren, blockedForChildren that
\* is present decides alone: true gives 18 and false gives 0, so
\* inappropriateForChildren = false gives 0 whatever blockedForChildren is;
\* with both absent the age limit is null.
C1_FirstPresentDecides ==
    (mpc = "return" /\ "age_limit" \notin DOMAIN info) =>
        LET a == Flag(video_info, "inappropriateForChildren")
            b == Flag(video_info, "blockedForChildren")
            first == IF a # "absent" THEN a ELSE b
            age == Get(meta_out, "age_limit")
        IN /\ first = "true" => age = I("18")
           /\ first = "false" => age = I("0")
           /\ first = "absent" => age = None

C1_Witness ==
    /\ mpc = "return"
    /\ "age_limit" \notin DOMAIN info
    /\ Flag(video_info, "inappropriateForChildren") = "false"
    /\ Flag(video_info, "blockedForChildren") = "true"
    /\ Get(meta_out, "age_limit") = I("0")

AlnumTokens == {"m3u8", "f4m", "mpd", "mp4", "vtt", "wsrt"}

RECURSIVE BeforeQuery(_)
\* url.partition('?')[0]
BeforeQuery(toks) ==
    IF toks = <<>> \/ Head(toks) = "?" THEN <<>>
    ELSE <<Head(toks)>> \o BeforeQuery(Tail(toks))

\* s.rpartition('.')[2]
AfterLastDot(toks) ==
    IF \E i \in 1..Len(toks) : toks[i] = "."
    THEN LET i == CHOOSE i \in 1..Len(toks) :
                      toks[i] = "." /\ \A j \in (i+1)..Len(toks) : toks[j] # "."
         IN SubSeq(toks, i + 1, Len(toks))
    ELSE toks

\* the file extension of a URL, or 'unknown_video'
determine_ext(url) ==
    LET guess == AfterLastDot(BeforeQuery(url[2])) IN
    IF Len(guess) = 1 /\ guess[1] \in AlnumTokens THEN guess[1]
    ELSE "unknown_video"

\* is_live = dict_get(video_info, ('live', 'simulcast'), default=False)
IsLive(vi) == dict_get(vi, <<"live", "simulcast">>, B(FALSE), TRUE)

M3u8Protocol(vi) == IF Truthy(IsLive(vi)) THEN "m3u8" ELSE "m3u8_native"

\* vr.get('playerType') or vr.get('format')
PlayerType(vr) ==
    IF Truthy(Get(vr, "playerType")) THEN Get(vr, "playerType")
    ELSE Get(vr, "format")

IdToks(player_type) == IF player_type[1] = "str" THEN player_type[2] ELSE <<>>

\* what a manifest decoder returns for a manifest of n renditions (n = 0 when
\* the manifest cannot be fetched or decoded: fatal=False)
ManifestFormats(manifest_url, id, n, extra) ==
    [j \in 1..n |->
        Assign(Assign(extra, "format_id", S(IdToks(id) \o <<"-", ToString(j)>>)),
               "url", S(manifest_url \o <<"#", ToString(j)>>))]

ProcessReferenceDedup(fs, vr, n, m3u8_protocol) ==
    LET f == [format_id |-> PlayerType(vr), url |-> vr["url"]] IN
    IF \E i \in 1..Len(fs) : fs[i] = f THEN fs ELSE Append(fs, f)

\* one iteration of the loop over videoReferences
ProcessReference(fs, vr, n, m3u8_protocol) ==
    LET player_type == PlayerType(vr)
        vurl == vr["url"]
        ext == determine_ext(vurl)
    IN CASE ext = "m3u8" ->
              fs \o ManifestFormats(vurl[2], player_type, n,
                                    [ext |-> S(<<"mp4">>),
                                     protocol |-> S(<<m3u8_protocol>>)])
         [] ext = "f4m" ->
              fs \o ManifestFormats(vurl[2] \o <<"?hdcore=3.3.0">>, player_type, n,
                                    EmptyDict)
         [] ext = "mpd" ->
              IF player_type = S(<<"dashhbbtv">>)
              THEN fs \o ManifestFormats(vurl[2], player_type, n, EmptyDict)
              ELSE fs
         [] OTHER ->
              Append(fs, [format_id |-> player_type, url |-> vurl])

RECURSIVE ResolveReferences(_, _, _, _)
\* the loop over videoReferences; dec[i] is what the decoder returns for the
\* i-th of the references still to process
ResolveReferences(fs, refs, dec, m3u8_protocol) ==
    IF refs = <<>> THEN fs
    ELSE ResolveReferences(ProcessReference(fs, Head(refs), Head(dec), m3u8_protocol),
                           Tail(refs), Tail(dec), m3u8_protocol)

GeoBlocked(vi) ==
    Truthy(Get(GetDefault(vi, "rights", D(EmptyDict))[2], "geoBlockedSweden"))

GeoCheckIgnoresFormats(fs, vi) == GeoBlocked(vi)

\* if not formats and video_info.get('rights', {}).get('geoBlockedSweden')
GeoCheck(fs, vi) == fs = <<>> /\ GeoBlocked(vi)

\* preference of a format, by the head of its format identifier
FormatRank(f) ==
    LET toks == IdToks(f["format_id"])
        head == IF toks = <<>> THEN "" ELSE toks[1]
    IN CASE head = "wmv" -> 1
         [] head = "hds" -> 2
         [] head = "hls" -> 3
         [] head = "dashhbbtv" -> 4
         [] OTHER -> 0

RECURSIVE InsertFormat(_, _)
InsertFormat(sorted, f) ==
    IF sorted = <<>> THEN <<f>>
    ELSE IF FormatRank(f) < FormatRank(Head(sorted))
         THEN <<f>> \o sorted
         ELSE <<Head(sorted)>> \o InsertFormat(Tail(sorted), f)

RECURSIVE SortFormatsFrom(_, _)
SortFormatsFrom(sorted, fs) ==
    IF fs = <<>> THEN sorted
    ELSE SortFormatsFrom(InsertFormat(sorted, Head(fs)), Tail(fs))

\* the shared quality ranking: a stable ordering of the same formats
sort_formats(fs) == SortFormatsFrom(<<>>, fs)

\* subtitles.setdefault(subtitle_lang, []).append({'url': subtitle_url})
AppendSubtitle(subs, lang, url) ==
    [l \in DOMAIN subs \cup {lang} |->
        IF l \in DOMAIN subs
        THEN (IF l = lang THEN Append(subs[l], [url |-> url]) ELSE subs[l])
        ELSE <<[url |-> url]>>]

ProcessSubtitleKeepsM3u8(subs, sr) ==
    LET subtitle_url == Get(sr, "url")
        subtitle_lang == GetDefault(sr, "language", S(<<"sv">>))
    IN IF Truthy(subtitle_url)
       THEN AppendSubtitle(subs, subtitle_lang, subtitle_url)
       ELSE subs

\* one iteration of the loop over the subtitle references
ProcessSubtitle(subs, sr) ==
    LET subtitle_url == Get(sr, "url")
        subtitle_lang == GetDefault(sr, "language", S(<<"sv">>))
    IN IF Truthy(subtitle_url)
       THEN (IF determine_ext(subtitle_url) = "m3u8" THEN subs
             ELSE AppendSubtitle(subs, subtitle_lang, subtitle_url))
       ELSE subs

RECURSIVE SubtitleLoop(_, _)
SubtitleLoop(subs, srs) ==
    IF srs = <<>> THEN subs
    ELSE SubtitleLoop(ProcessSubtitle(subs, Head(srs)), Tail(srs))

ExtractSubtitles(vi) ==
    LET subtitle_references ==
            dict_get(vi, <<"subtitles", "subtitleReferences">>, None, TRUE)
    IN IF subtitle_references[1] = "list"
       THEN SubtitleLoop(EmptyDict, subtitle_references[2])
       ELSE EmptyDict

\* lines 89-109: sort the formats, collect the subtitles, merge the metadata
VideoItem(vi, video_id, fs) ==
    ExtractMetadata([id        |-> video_id,
                     formats   |-> L(sort_formats(fs)),
                     subtitles |-> D(ExtractSubtitles(vi)),
                     is_live   |-> IsLive(vi)], vi)

\* _extract_video as a function: the error raised ("none" when it returns)
\* and the item returned
ExtractVideo(vi, video_id, dec) ==
    IF "videoReferences" \notin DOMAIN vi
    THEN [err |-> "KeyError", item |-> EmptyDict]
    ELSE LET fs == ResolveReferences(<<>>, vi["videoReferences"][2], dec,
                                     M3u8Protocol(vi))
         IN IF GeoCheck(fs, vi)
            THEN [err |-> "GeoRestricted", item |-> EmptyDict]
            ELSE [err |-> "none", item |-> VideoItem(vi, video_id, fs)]

(***************************************************************************)
(* Specification SpecVideo: _extract_video on the video infos below        *)
(***************************************************************************)
MaxRefs == 2

MaxDecoded == 2

MaxSubs == 2

SeqsUpTo(set, n) == UNION {[1..k -> set] : k \in 0..n}

Url(base, ext) == S(<<base, ".", ext>>)

References ==
    {[playerType |-> S(<<"hls">>), url |-> Url("http://v/a", "m3u8")],
     [format |-> S(<<"hds">>), url |-> Url("http://v/a", "f4m")],
     [playerType |-> S(<<"dashhbbtv">>), url |-> Url("http://v/a", "mpd")],
     [playerType |-> S(<<"dash">>), url |-> Url("http://v/a", "mpd")],
     [playerType |-> S(<<"wmv">>), url |-> Url("http://v/a", "mp4")],
     [playerType |-> S(<<>>), format |-> S(<<"wmv">>),
      url |-> S(<<"http://v/b", ".", "mp4", "?", "alt=a", ".", "m3u8">>)]}

RightsOpts ==
    {{},
     {<<"rights", D(EmptyDict)>>},
     {<<"rights", D([geoBlockedSweden |-> B(FALSE)])>>},
     {<<"rights", D([geoBlockedSweden |-> B(TRUE)])>>}}

LiveOpts ==
    {{},
     {<<"live", B(TRUE)>>},
     {<<"live", B(FALSE)>>, <<"simulcast", B(TRUE)>>}}

SubtitleEntries ==
    {[url |-> Url("http://s/a", "vtt"), language |-> S(<<"en">>)],
     [url |-> Url("http://s/b", "wsrt")],
     [url |-> Url("http://s/c", "m3u8"), language |-> S(<<"sv">>)],
     [language |-> S(<<"en">>)],
     [url |-> S(<<>>)],
     [url |-> S(<<"http://s/d", ".", "vtt", "?", "alt=d", ".", "m3u8">>),
      language |-> S(<<"en">>)]}

SubtitleOpts ==
    {{}} \cup
    UNION {{ {<<"subtitles", L(l)>>},
             {<<"subtitleReferences", L(l)>>},
             {<<"subtitles", L(<<>>)>>, <<"subtitleReferences", L(l)>>},
             {<<"subtitles", D([sv |-> L(l)])>>, <<"subtitleReferences", L(l)>>},
             {<<"subtitles", L(l)>>,
              <<"subtitleReferences", L(<<[url |-> Url("http://s/e", "vtt")]>>)>>} } :
           l \in SeqsUpTo(SubtitleEntries, MaxSubs)}

\* video infos that vary the references, the rights and the live flags
ReferenceInputs ==
    {<<MkDict({<<"title", S(<<"T">>)>>, <<"videoReferences", L(refs)>>} \cup r \cup lv),
       dec>> :
        refs \in SeqsUpTo(References, MaxRefs), r \in RightsOpts, lv \in LiveOpts,
        dec \in SeqsUpTo(0..MaxDecoded, MaxRefs)}

\* video infos that vary the subtitle references
SubtitleInputs ==
    {<<MkDict({<<"videoReferences", L(<<[playerType |-> S(<<"wmv">>),
                                        url |-> Url("http://v/a", "mp4")]>>)>>}
              \cup sub), <<0>> >> :
        sub \in SubtitleOpts}

\* a video info without videoReferences
BrokenInputs ==
    {<<MkDict({<<"title", S(<<"T">>)>>} \cup r), <<>> >> : r \in RightsOpts}

InitVideo ==
    /\ MetaIdle
    /\ SeriesIdle
    /\ PlayIdle
    /\ vpc = "start"
    /\ \E in \in ReferenceInputs \cup SubtitleInputs \cup BrokenInputs :
          /\ v_info = in[1]
          /\ decoded = in[2]
          /\ ("videoReferences" \in DOMAIN in[1]) =>
                 Len(in[2]) = Len(in[1]["videoReferences"][2])
    /\ formats = <<>>
    /\ v_err = "none"
    /\ v_out = EmptyDict

\* video_info['videoReferences'] of a mapping without that key
VideoNoReferences ==
    /\ vpc = "start"
    /\ "videoReferences" \notin DOMAIN v_info
    /\ v_err' = "KeyError"
    /\ vpc' = "raised"
    /\ UNCHANGED <<v_info, decoded, formats, v_out>>
    /\ UNCHANGED <<metaVars, seriesVars, playVars>>

\* lines 62-84: the loop over videoReferences
VideoResolveFormats ==
    /\ vpc = "start"
    /\ "videoReferences" \in DOMAIN v_info
    /\ formats' = ResolveReferences(<<>>, v_info["videoReferences"][2], decoded,
                                    M3u8Protocol(v_info))
    /\ vpc' = "check"
    /\ UNCHANGED <<v_info, decoded, v_err, v_out>>
    /\ UNCHANGED <<metaVars, seriesVars, playVars>>

\* lines 85-88: raise_geo_restricted
VideoGeoRestricted ==
    /\ vpc = "check"
    /\ GeoCheck(formats, v_info)
    /\ v_err' = "GeoRestricted"
    /\ vpc' = "raised"
    /\ UNCHANGED <<v_info, decoded, formats, v_out>>
    /\ UNCHANGED <<metaVars, seriesVars, playVars>>

\* lines 89-109: sort, subtitles, metadata, return
VideoReturn ==
    /\ vpc = "check"
    /\ ~GeoCheck(formats, v_info)
    /\ v_out' = VideoItem(v_info, S(<<"vid">>), formats)
    /\ formats' = sort_formats(formats)
    /\ vpc' = "return"
    /\ UNCHANGED <<v_info, decoded, v_err>>
    /\ UNCHANGED <<metaVars, seriesVars, playVars>>

NextVideo ==
    \/ VideoNoReferences
    \/ VideoResolveFormats
    \/ VideoGeoRestricted
    \/ VideoReturn

SpecVideo == InitVideo /\ [][NextVideo]_vars

(***************************************************************************)
(* Claims about _extract_video                                             *)
(***************************************************************************)
GeoFlagTrue(vi) ==
    /\ "rights" \in DOMAIN vi
    /\ "geoBlockedSweden" \in DOMAIN vi["rights"][2]
    /\ vi["rights"][2]["geoBlockedSweden"] = B(TRUE)

\* C3: once all videoReferences have been processed, GeoRestricted is raised
\* if and only if the rendition list is empty and rights.geoBlockedSweden is
\* true.
C3_GeoIffEmptyAndFlag ==
    (vpc \in {"raised", "return"} /\ v_err # "KeyError") =>
        ((v_err = "GeoRestricted") <=> (formats = <<>> /\ GeoFlagTrue(v_info)))

C3_Witness ==
    /\ vpc = "raised"
    /\ v_err = "GeoRestricted"
    /\ Len(v_info["videoReferences"][2]) = 2
    /\ formats = <<>>

SamePair(f, g) == f["format_id"] = g["format_id"] /\ f["url"] = g["url"]

NoDuplicatePair(fs) ==
    \A i, j \in 1..Len(fs) : (i # j) => ~SamePair(fs[i], fs[j])

NonAdaptive(vr) == determine_ext(vr["url"]) \notin {"m3u8", "f4m", "mpd"}

FirstSubtitleValue(vi) ==
    IF "subtitles" \in DOMAIN vi /\ Truthy(vi["subtitles"]) THEN vi["subtitles"]
    ELSE IF "subtitleReferences" \in DOMAIN vi /\ Truthy(vi["subtitleReferences"])
         THEN vi["subtitleReferences"]
         ELSE None

LanguageOf(sr) == IF "language" \in DOMAIN sr THEN sr["language"] ELSE S(<<"sv">>)

KeptSubtitle(sr) ==
    /\ "url" \in DOMAIN sr
    /\ sr["url"] # S(<<>>)
    /\ determine_ext(sr["url"]) # "m3u8"

RECURSIVE ItemLoop(_, _)
\* lines 346-352: one forward reference per item with a text videoSvtId
ItemLoop(entries, items) ==
    IF items = <<>> THEN entries
    ELSE LET item == Head(items)
             inner == Get(item, "item")
             video == IF Truthy(inner) THEN inner[2] ELSE EmptyDict
             content_id == Get(video, "videoSvtId")
         IN IF ~Truthy(content_id) \/ content_id[1] # "str"
            THEN ItemLoop(entries, Tail(items))
            ELSE ItemLoop(Append(entries,
                                 [url |-> S(<<"svt:">> \o content_id[2]),
                                  ie_key |-> "SVTPlay", id |-> content_id]),
                          Tail(items))

RECURSIVE SeasonLoop(_, _, _, _)
\* lines 336-352: the loop over associatedContent; the season name found so
\* far and the entries collected so far
SeasonLoop(seasons, sid, season_name, entries) ==
    IF seasons = <<>> THEN [season_name |-> season_name, entries |-> entries]
    ELSE LET season == Head(seasons) IN
         IF season[1] # "dict"
         THEN SeasonLoop(Tail(seasons), sid, season_name, entries)
         ELSE IF Truthy(sid) /\ Get(season[2], "id") # sid
         THEN SeasonLoop(Tail(seasons), sid, season_name, entries)
         ELSE LET name == IF Truthy(sid) THEN Get(season[2], "name") ELSE season_name
                  items == Get(season[2], "items")
              IN IF items[1] # "list"
                 THEN SeasonLoop(Tail(seasons), sid, name, entries)
                 ELSE SeasonLoop(Tail(seasons), sid, name, ItemLoop(entries, items[2]))

SeriesTitleNameOnlyWhenKnown(ser, sid, found_name) ==
    LET title == Get(ser, "name") IN
    IF Truthy(title) /\ Truthy(found_name)
    THEN S(title[2] \o <<" - ">> \o found_name[2])
    ELSE IF Truthy(title) THEN title
    ELSE IF Truthy(found_name) THEN found_name
    ELSE sid

\* lines 354-360
SeriesTitle(ser, sid, found_name) ==
    LET title == Get(ser, "name")
        season_name == IF Truthy(found_name) THEN found_name ELSE sid
    IN IF Truthy(title) /\ Truthy(season_name)
       THEN S(title[2] \o <<" - ">> \o season_name[2])
       ELSE IF Truthy(sid) THEN sid
       ELSE title

\* lines 333-364: the playlist result
SeriesPlaylist(ser, sid) ==
    LET loop == SeasonLoop(ser["associatedContent"][2], sid, None, <<>>) IN
    [entries     |-> loop.entries,
     id          |-> IF Truthy(sid) THEN sid ELSE Get(ser, "id"),
     title       |-> SeriesTitle(ser, sid, loop.season_name),
     description |-> dict_get(ser, <<"longDescription", "shortDescription">>,
                              None, TRUE)]

(***************************************************************************)
(* Specification SpecSeries                                                *)
(***************************************************************************)
MaxSeasons == 2

EpisodeItems ==
    L(<<[item |-> D([videoSvtId |-> S(<<"e1">>)])],
        [item |-> None],
        [item |-> D([videoSvtId |-> I("8")])],
        [item |-> D([videoSvtId |-> S(<<"e2">>)])]>>)

SeasonGroups ==
    {D([id |-> S(<<"season-2">>), name |-> S(<<"Season 2">>), items |-> EpisodeItems]),
     D([id |-> S(<<"season-2">>), items |-> EpisodeItems]),
     D([id |-> S(<<"season-1">>), name |-> S(<<"Season 1">>),
        items |-> L(<<[item |-> D([videoSvtId |-> S(<<"e0">>)])]>>)]),
     D([id |-> S(<<"season-3">>), name |-> S(<<"Season 3">>)]),
     S(<<"junk">>)}

SeriesNameOpts == {{}, {<<"name", S(<<"Rederiet">>)>>}}

DescriptionOpts ==
    {{},
     {<<"shortDescription", S(<<"short">>)>>},
     {<<"longDescription", S(<<"long">>)>>, <<"shortDescription", S(<<"short">>)>>}}

SeriesDocuments ==
    {MkDict({<<"id", S(<<"14445680">>)>>, <<"associatedContent", L(groups)>>}
            \cup n \cup d) :
        groups \in SeqsUpTo(SeasonGroups, MaxSeasons), n \in SeriesNameOpts,
        d \in DescriptionOpts}

InitSeries ==
    /\ MetaIdle
    /\ VideoIdle
    /\ PlayIdle
    /\ spc = "call"
    /\ series \in SeriesDocuments
    /\ season_id \in {None, S(<<"season-2">>)}
    /\ playlist = EmptyDict

SeriesExtract ==
    /\ spc = "call"
    /\ playlist' = SeriesPlaylist(series, season_id)
    /\ spc' = "return"
    /\ UNCHANGED <<series, season_id>>
    /\ UNCHANGED <<metaVars, videoVars, playVars>>

NextSeries == SeriesExtract

SpecSeries == InitSeries /\ [][NextSeries]_vars

(***************************************************************************)
(* Claims about SVTSeriesIE                                                *)
(***************************************************************************)
\* positions of the season groups whose id is the season selector
Matching(ser, sid) ==
    LET groups == ser["associatedContent"][2] IN
    {i \in 1..Len(groups) :
        /\ groups[i][1] = "dict"
        /\ "id" \in DOMAIN groups[i][2]
        /\ groups[i][2]["id"] = sid}

\* the season name: the name of the (last) matching group, None when no
\* selector was given, no group matches or the group has no name
KnownSeasonName(ser, sid) ==
    IF sid = None \/ Matching(ser, sid) = {} THEN None
    ELSE LET last == CHOOSE i \in Matching(ser, sid) :
                         \A j \in Matching(ser, sid) : j <= i
         IN Get(ser["associatedContent"][2][last][2], "name")

\* C6 as stated: the title is "<series name> - <season name>" when both are
\* known, otherwise the one of the two that is known, and the bare season
\* selector only when neither is known.
C6_AsStated ==
    (spc = "return") =>
        LET name == Get(series, "name")
            season == KnownSeasonName(series, season_id)
        IN playlist["title"] =
              (IF name # None /\ season # None
               THEN S(name[2] \o <<" - ">> \o season[2])
               ELSE IF name # None THEN name
               ELSE IF season # None THEN season
               ELSE season_id)

\* C6 amended: with a season selector, the selector stands in for a season
\* name that is not known: the title is "<series name> - <season name or
\* selector>" when the series name is known and the bare selector when it is
\* not (also when the season name is known); without a selector the title is
\* the series name.
C6_SelectorStandsIn ==
    (spc = "return") =>
        LET name == Get(series, "name")
            season == KnownSeasonName(series, season_id)
            label == IF season # None THEN season ELSE season_id
        IN playlist["title"] =
              (IF season_id = None THEN name
               ELSE IF name # None THEN S(name[2] \o <<" - ">> \o label[2])
               ELSE season_id)

C6_Witness ==
    /\ spc = "return"
    /\ "name" \in DOMAIN series
    /\ season_id = S(<<"season-2">>)
    /\ Matching(series, season_id) # {}
    /\ KnownSeasonName(series, season_id) = None
    /\ playlist["title"] = S(<<"Rederiet", " - ", "season-2">>)

(***************************************************************************)
(* SVTPlayIE                                                               *)
(***************************************************************************)
Missing == <<"missing", <<>>>>

RECURSIVE Path(_, _)
\* x[k1][k2]...[kn]; Missing when a subscript fails
Path(v, keys) ==
    IF keys = <<>> THEN v
    ELSE IF v[1] = "dict" /\ Head(keys) \in DOMAIN v[2]
         THEN Path(v[2][Head(keys)], Tail(keys))
         ELSE Missing

\* the value at the path when it exists and has the expected type, else None
try_get(src, keys, type) ==
    LET v == Path(src, keys) IN
    IF v # Missing /\ v[1] = type THEN v ELSE None

\* the "currently live" title: the name followed by the current time
live_title(name) == S(name[2] \o <<" ", "2026-01-01 00:00">>)

AdjustTitleAlways(i) == Assign(i, "title", live_title(i["title"]))

\* _adjust_title, lines 210-212
AdjustTitle(i) ==
    IF Truthy(i["is_live"]) THEN Assign(i, "title", live_title(i["title"])) ELSE i

\* no reference of these video infos is an adaptive manifest
NoManifests(vi) ==
    IF "videoReferences" \in DOMAIN vi
    THEN [j \in 1..Len(vi["videoReferences"][2]) |-> 0]
    ELSE <<>>

RECURSIVE BeforeBar(_)
BeforeBar(toks) ==
    IF toks = <<>> \/ Head(toks) = "|" THEN <<>>
    ELSE <<Head(toks)>> \o BeforeBar(Tail(toks))

RECURSIVE StripRight(_)
StripRight(toks) ==
    IF toks # <<>> /\ toks[Len(toks)] = " "
    THEN StripRight(SubSeq(toks, 1, Len(toks) - 1))
    ELSE toks

\* re.sub(r'\s*\|\s*.+?$', '', self._og_search_title(webpage)); None when
\* the page has no title tag
OgTitle(page) ==
    LET og == page[2]["og_title"] IN
    IF og[1] = "str" THEN S(StripRight(BeforeBar(og[2]))) ELSE None

\* _extract_by_video_id, lines 214-228: the error raised ("none" when it
\* returns), the item before _adjust_title and the item returned
ExtractByVideoId(video_id, page, resp) ==
    IF resp[1] # "dict"
    THEN [err |-> "ExtractorError", titled |-> EmptyDict, item |-> EmptyDict]
    ELSE LET r == ExtractVideo(resp[2], video_id, NoManifests(resp[2])) IN
         IF r.err # "none"
         THEN [err |-> r.err, titled |-> EmptyDict, item |-> EmptyDict]
         ELSE LET t1 == dict_get(r.item, <<"episode", "series">>, None, TRUE)
                  t2 == IF ~Truthy(t1) /\ Truthy(page) THEN OgTitle(page) ELSE t1
                  t3 == IF ~Truthy(t2) THEN video_id ELSE t2
                  titled == IF ~Truthy(Get(r.item, "title"))
                            THEN Assign(r.item, "title", t3)
                            ELSE r.item
              IN [err |-> "none", titled |-> titled, item |-> AdjustTitle(titled)]

\* lines 239-243: the embedded blob, searched with default '{}' and parsed
\* with fatal=False
EmbeddedData(page) ==
    LET blob == page[2]["blob"] IN
    CASE blob[1] = "absent" -> D(EmptyDict)
      [] blob[1] = "unparsable" -> None
      [] OTHER -> D(blob[2])

VideoInfoPath ==
    <<"context", "dispatcher", "stores", "VideoTitlePageStore", "data", "video">>

MetaTitlePath == <<"context", "dispatcher", "stores", "MetaStore", "title">>

ContentIdPath == <<"statistics", "dataLake", "content", "id">>

\* lines 247-258: the error raised, the item before and after _adjust_title
\* and the content id read from the blob
EmbeddedStep(d, video_id) ==
    IF ~Truthy(d)
    THEN [err |-> "none", titled |-> EmptyDict, item |-> EmptyDict, svt_id |-> None]
    ELSE LET vi == try_get(d, VideoInfoPath, "dict")
             sid == try_get(d, ContentIdPath, "str")
         IN IF ~Truthy(vi)
            THEN [err |-> "none", titled |-> EmptyDict, item |-> EmptyDict,
                  svt_id |-> sid]
            ELSE LET r == ExtractVideo(vi[2], video_id, NoManifests(vi[2]))
                     title == Path(d, MetaTitlePath)
                 IN IF r.err # "none"
                    THEN [err |-> r.err, titled |-> EmptyDict, item |-> EmptyDict,
                          svt_id |-> None]
                    ELSE IF title = Missing
                    THEN [err |-> "KeyError", titled |-> EmptyDict,
                          item |-> EmptyDict, svt_id |-> None]
                    ELSE LET titled == Assign(r.item, "title", title) IN
                         [err |-> "none", titled |-> titled,
                          item |-> AdjustTitle(titled), svt_id |-> sid]

RECURSIVE FirstMatch(_)
\* _search_regex with a tuple of patterns: the first pattern that matches
FirstMatch(matches) ==
    IF matches = <<>> THEN None
    ELSE IF Head(matches) # None THEN Head(matches)
    ELSE FirstMatch(Tail(matches))

FallbackIdPatternsFirst(sid, page) ==
    IF FirstMatch(page[2]["ids"]) # None THEN FirstMatch(page[2]["ids"]) ELSE sid

\* lines 261-267: the id for the id-based endpoint; None when no pattern
\* matches (_search_regex then raises)
FallbackId(sid, page) ==
    IF ~Truthy(sid) THEN FirstMatch(page[2]["ids"]) ELSE sid

MergeVideoPageBaseWins(i, d) ==
    IF Truthy(d)
    THEN LET video_data == try_get(d, <<"videoPage", "video">>, "dict") IN
         IF Truthy(video_data) THEN ExtractMetadataBaseWins(i, video_data[2]) ELSE i
    ELSE i

\* lines 271-274
MergeVideoPage(i, d) ==
    IF Truthy(d)
    THEN LET video_data == try_get(d, <<"videoPage", "video">>, "dict") IN
         IF Truthy(video_data) THEN ExtractMetadata(i, video_data[2]) ELSE i
    ELSE i

\* lines 276-277
BackfillThumbnail(i, page) ==
    IF ~Truthy(Get(i, "thumbnail"))
    THEN Assign(i, "thumbnail", page[2]["og_thumbnail"])
    ELSE i

(***************************************************************************)
(* Specification SpecPlay: _real_extract on an svt:<id> reference and on   *)
(* play pages                                                              *)
(***************************************************************************)
DirectReferences ==
    L(<<[playerType |-> S(<<"wmv">>), url |-> Url("http://v/a", "mp4")]>>)

PlayVideoInfos ==
    {[title |-> S(<<"Episode 8">>), videoReferences |-> DirectReferences],
     [title |-> S(<<"News">>), live |-> B(TRUE), videoReferences |-> DirectReferences,
      thumbnail |-> S(<<"http://img/", "{format}", "/2.jpg">>)],
     [episodeTitle |-> S(<<"E">>), programTitle |-> S(<<"P">>),
      videoReferences |-> DirectReferences],
     [videoReferences |-> DirectReferences],
     [simulcast |-> B(TRUE), videoReferences |-> DirectReferences],
     [title |-> S(<<"Blocked">>), videoReferences |-> L(<<>>),
      rights |-> D([geoBlockedSweden |-> B(TRUE)])]}

EmbeddedVideoOpts ==
    {{}} \cup
    {{<<"VideoTitlePageStore", D([data |-> D([video |-> D(vi)])])>>} :
        vi \in PlayVideoInfos}

MetaStoreOpts == {{}, {<<"MetaStore", D([title |-> S(<<"Meta title">>)])>>}}

StatisticsOpts ==
    {{}} \cup
    {{<<"statistics", D([dataLake |-> D([content |-> D([id |-> v])])])>>} :
        v \in {S(<<"KyVERRZ">>), I("8")}}

VideoPageOpts ==
    {{}} \cup
    {{<<"videoPage", D([video |-> D(vd)])>>} :
        vd \in {[title |-> S(<<"Page video title">>),
                 description |-> S(<<"Page description">>),
                 thumbnail |-> S(<<"http://img/", "{format}", "/3.jpg">>)],
                [description |-> S(<<"Page description">>)]}}

Blobs ==
    {<<"absent", <<>>>>, <<"unparsable", <<>>>>} \cup
    {<<"json",
       MkDict({<<"context", D([dispatcher |-> D([stores |-> D(MkDict(ev \cup ms))])])>>}
              \cup st \cup vp)>> :
        ev \in EmbeddedVideoOpts, ms \in MetaStoreOpts, st \in StatisticsOpts,
        vp \in VideoPageOpts}

\* what each of the four id patterns of lines 263-266 captures in the page
PatternMatches ==
    {<<None, None, None, None>>,
     <<S(<<"id-1">>), None, None, None>>,
     <<None, S(<<"id-2">>), None, S(<<"id-4">>)>>,
     <<None, None, S(<<"id-3">>), None>>,
     <<None, None, None, S(<<"id-4">>)>>}

OgTitles == {None, S(<<"Page title", " ", "|", " ", "SVT Play">>)}

OgThumbnails == {None, S(<<"http://img/og.jpg">>)}

Webpages ==
    {D([blob |-> b, ids |-> m, og_title |-> t, og_thumbnail |-> th]) :
        b \in Blobs, m \in PatternMatches, t \in OgTitles, th \in OgThumbnails}

\* what the id-based endpoint answers: a video info, or a failed download
ApiResponses == {D(vi) : vi \in PlayVideoInfos} \cup {<<"error", <<>>>>}

InitPlay ==
    /\ MetaIdle
    /\ VideoIdle
    /\ SeriesIdle
    /\ ppc = "start"
    /\ \/ /\ url_svt_id = S(<<"1376446-003A">>)
          /\ url_id = None
          /\ webpage = None
       \/ /\ url_svt_id = None
          /\ url_id = S(<<"5996901">>)
          /\ webpage \in Webpages
    /\ api \in ApiResponses
    /\ data = None
    /\ info_dict = EmptyDict
    /\ svt_id = url_svt_id
    /\ p_err = "none"
    /\ fetched = <<>>
    /\ chosen = None
    /\ rewrites = 0
    /\ before_merge = EmptyDict

Rewritten(r) == IF r.item # r.titled THEN 1 ELSE 0

\* lines 234-235: return self._extract_by_video_id(svt_id)
PlayBySvtId ==
    /\ ppc = "start"
    /\ Truthy(url_svt_id)
    /\ LET r == ExtractByVideoId(url_svt_id, None, api) IN
       /\ fetched' = Append(fetched, url_svt_id)
       /\ IF r.err # "none"
          THEN /\ p_err' = r.err
               /\ ppc' = "raised"
               /\ UNCHANGED <<info_dict, chosen, rewrites>>
          ELSE /\ info_dict' = r.item
               /\ chosen' = r.titled["title"]
               /\ rewrites' = rewrites + Rewritten(r)
               /\ ppc' = "return"
               /\ UNCHANGED p_err
    /\ UNCHANGED <<url_id, url_svt_id, webpage, api, data, svt_id, before_merge>>
    /\ UNCHANGED <<metaVars, videoVars, seriesVars>>

\* lines 237-245: download the page, search and parse the embedded blob
PlayParsePage ==
    /\ ppc = "start"
    /\ ~Truthy(url_svt_id)
    /\ data' = EmbeddedData(webpage)
    /\ info_dict' = EmptyDict
    /\ ppc' = "embedded"
    /\ UNCHANGED <<url_id, url_svt_id, webpage, api, svt_id, p_err, fetched,
                   chosen, rewrites, before_merge>>
    /\ UNCHANGED <<metaVars, videoVars, seriesVars>>

\* lines 247-258: the item from the embedded video info
PlayEmbedded ==
    /\ ppc = "embedded"
    /\ LET r == EmbeddedStep(data, url_id) IN
       IF r.err # "none"
       THEN /\ p_err' = r.err
            /\ ppc' = "raised"
            /\ UNCHANGED <<info_dict, svt_id, chosen, rewrites>>
       ELSE /\ info_dict' = r.item
            /\ svt_id' = IF Truthy(data) THEN r.svt_id ELSE svt_id
            /\ chosen' = IF r.item # EmptyDict THEN r.titled["title"] ELSE chosen
            /\ rewrites' = rewrites + Rewritten(r)
            /\ ppc' = "fallback"
            /\ UNCHANGED p_err
    /\ UNCHANGED <<url_id, url_svt_id, webpage, api, data, fetched, before_merge>>
    /\ UNCHANGED <<metaVars, videoVars, seriesVars>>

\* lines 260-269: the id-based endpoint when there is no item yet
PlayFallback ==
    /\ ppc = "fallback"
    /\ IF info_dict = EmptyDict
       THEN LET id == FallbackId(svt_id, webpage) IN
            IF id = None
            THEN /\ p_err' = "RegexNotFoundError"
                 /\ ppc' = "raised"
                 /\ UNCHANGED <<info_dict, svt_id, fetched, chosen, rewrites>>
            ELSE LET r == ExtractByVideoId(id, webpage, api) IN
                 /\ svt_id' = id
                 /\ fetched' = Append(fetched, id)
                 /\ IF r.err # "none"
                    THEN /\ p_err' = r.err
                         /\ ppc' = "raised"
                         /\ UNCHANGED <<info_dict, chosen, rewrites>>
                    ELSE /\ info_dict' = r.item
                         /\ chosen' = r.titled["title"]
                         /\ rewrites' = rewrites + Rewritten(r)
                         /\ ppc' = "merge"
                         /\ UNCHANGED p_err
       ELSE /\ ppc' = "merge"
            /\ UNCHANGED <<info_dict, svt_id, fetched, chosen, rewrites, p_err>>
    /\ UNCHANGED <<url_id, url_svt_id, webpage, api, data, before_merge>>
    /\ UNCHANGED <<metaVars, videoVars, seriesVars>>

\* lines 271-274: the metadata of videoPage.video merged into the item
PlayMerge ==
    /\ ppc = "merge"
    /\ before_merge' = info_dict
    /\ info_dict' = MergeVideoPage(info_dict, data)
    /\ ppc' = "thumbnail"
    /\ UNCHANGED <<url_id, url_svt_id, webpage, api, data, svt_id, p_err, fetched,
                   chosen, rewrites>>
    /\ UNCHANGED <<metaVars, videoVars, seriesVars>>

\* lines 276-279: thumbnail backfill and return
PlayThumbnail ==
    /\ ppc = "thumbnail"
    /\ info_dict' = BackfillThumbnail(info_dict, webpage)
    /\ ppc' = "return"
    /\ UNCHANGED <<url_id, url_svt_id, webpage, api, data, svt_id, p_err, fetched,
                   chosen, rewrites, before_merge>>
    /\ UNCHANGED <<metaVars, videoVars, seriesVars>>

NextPlay ==
    \/ PlayBySvtId
    \/ PlayParsePage
    \/ PlayEmbedded
    \/ PlayFallback
    \/ PlayMerge
    \/ PlayThumbnail

SpecPlay == InitPlay /\ [][NextPlay]_vars

(***************************************************************************)
(* Claims about SVTPlayIE                                                  *)
(***************************************************************************)
PageRun == url_id # None

PageBlob == webpage[2]["blob"]

\* the blob was parsed and holds the video-info object
HasVideoInfo ==
    /\ PageBlob[1] = "json"
    /\ Path(D(PageBlob[2]), VideoInfoPath) # Missing

\* statistics.dataLake.content.id of the blob when it is a text, else None
BlobContentId ==
    IF PageBlob[1] = "json"
    THEN LET v == Path(D(PageBlob[2]), ContentIdPath) IN
         IF v # Missing /\ v[1] = "str" /\ v[2] # <<>> THEN v ELSE None
    ELSE None

\* the id the fallback is to use: the blob's content id, else the capture of
\* the first page pattern, in order, that matches
ExpectedId ==
    LET m == webpage[2]["ids"] IN
    IF BlobContentId # None THEN BlobContentId
    ELSE IF m[1] # None THEN m[1]
    ELSE IF m[2] # None THEN m[2]
    ELSE IF m[3] # None THEN m[3]
    ELSE m[4]

\* C7: for a play page, the id-based endpoint is requested exactly when the
\* blob gave no video-info object, with the blob's content id if one was read
\* and else the first matching page pattern; without any id the run ends in
\* an extraction error and requests nothing; a returned item has a non-empty
\* id.
C7_FallbackOrdering ==
    (PageRun /\ ppc \in {"merge", "thumbnail", "return", "raised"}) =>
        /\ HasVideoInfo => fetched = <<>>
        /\ (~HasVideoInfo /\ ExpectedId # None) => fetched = <<ExpectedId>>
        /\ (~HasVideoInfo /\ ExpectedId = None) =>
               (fetched = <<>> /\ ppc = "raised" /\ p_err = "RegexNotFoundError")
        /\ (ppc = "return") =>
               ("id" \in DOMAIN info_dict /\ info_dict["id"][1] = "str"
                /\ info_dict["id"][2] # <<>>)

C7_Witness ==
    /\ PageRun
    /\ ppc = "return"
    /\ PageBlob[1] = "absent"
    /\ webpage[2]["ids"] = <<None, S(<<"id-2">>), None, S(<<"id-4">>)>>
    /\ fetched = <<S(<<"id-2">>)>>
    /\ info_dict["id"] = S(<<"id-2">>)

\* the embedded video info, or else the id-based endpoint, yields an item
YieldsItem ==
    IF HasVideoInfo
    THEN LET vi == Path(D(PageBlob[2]), VideoInfoPath)[2] IN
         ExtractVideo(vi, url_id, NoManifests(vi)).err = "none"
    ELSE /\ ExpectedId # None
         /\ api[1] = "dict"
         /\ ExtractVideo(api[2], ExpectedId, NoManifests(api[2])).err = "none"

\* C8: for a play page, whenever the embedded video info or the id-based
\* endpoint yields an item, resolve does not raise, whatever else the blob
\* lacks.
C8_AsStated ==
    (PageRun /\ YieldsItem) => ppc # "raised"

PageVideoHasTitle ==
    /\ PageRun
    /\ Truthy(data)
    /\ Path(data, <<"videoPage", "video", "title">>) # Missing

====
